---------------------------- MODULE Spec2Model ----------------------------
(***************************************************************************)
(* A model of the self-healing patch engine: src/patch_applier.py          *)
(* (PatchApplier) and src/failure_analyzer.py (FailureAnalyzer).           *)
(*                                                                         *)
(* Strings are sequences of one-character strings, a text is the sequence  *)
(* of its lines (the result of str.split('\n')), and a file is the         *)
(* sequence of its lines as file.readlines() returns them (each line with  *)
(* its terminator).                                                        *)
(***************************************************************************)
EXTENDS Integers, Sequences, FiniteSets, TLC

VARIABLES
    text,       \* _parse_diff: the patch text handed to the parser
    parsed,     \* _parse_diff: its result, or NotRun
    failure,    \* _classify_issue: the (failure_type, message, stack_trace) triple
    verdict,    \* _classify_issue: its result, or NotRun
    raw,        \* apply_patch: its argument patch_content, as given
    tree,       \* the working tree: path -> file
    index,      \* git's index: path -> file
    head,       \* git's HEAD commit: path -> file
    pc,         \* where PatchApplier is: idle, or a stage of apply_patch
    patch_content,  \* apply_patch: the cleaned and path-corrected patch,
                    \* kept as patch_content.split('\n')
    call,       \* the apply_patch call under way: what its stages did
    log,        \* the finished operations, oldest first
    input,      \* the arguments (and the environment) of a function called on its own
    output,     \* that function's result, or NotRun
    main        \* main(): its position, its locals and what it has done

parseVars == <<text, parsed>>
classVars == <<failure, verdict>>
applyVars == <<raw, tree, index, head, pc, patch_content, call, log>>
otherVars == <<input, output, main>>
vars == <<text, parsed, failure, verdict,
          raw, tree, index, head, pc, patch_content, call, log,
          input, output, main>>

NotRun == [ran |-> FALSE]

----------------------------------------------------------------------------
(* Python string primitives *)

\* str.strip() / str.split() whitespace
WS == {" ", "\t", "\n", "\r"}

Digit == {"0", "1", "2", "3", "4", "5", "6", "7", "8", "9"}

\* s.startswith(p)
StartsWith(s, p) == Len(s) >= Len(p) /\ SubSeq(s, 1, Len(p)) = p

\* s[n:]
Drop(s, n) == SubSeq(s, n + 1, Len(s))

RECURSIVE LStrip(_)
LStrip(s) == IF s # <<>> /\ Head(s) \in WS THEN LStrip(Tail(s)) ELSE s

RECURSIVE RStrip(_)
RStrip(s) ==
    IF s # <<>> /\ s[Len(s)] \in WS THEN RStrip(SubSeq(s, 1, Len(s) - 1)) ELSE s

\* s.strip()
Strip(s) == RStrip(LStrip(s))

IsSpace(c) == c \in WS

IsntSpace(c) == c \notin WS

\* "".join(s.split())
JoinSplit(s) == SelectSeq(s, IsntSpace)

\* needle in hay
RECURSIVE Contains(_, _)
Contains(hay, needle) ==
    IF Len(hay) < Len(needle) THEN FALSE
    ELSE StartsWith(hay, needle) \/ Contains(Tail(hay), needle)

----------------------------------------------------------------------------
(* PatchApplier._lines_match *)

\* the length of the maximal run of digits of s that starts at index i
RECURSIVE DigitRun(_, _)
DigitRun(s, i) ==
    IF i <= Len(s) /\ s[i] \in Digit THEN 1 + DigitRun(s, i + 1) ELSE 0

\* the number of "0" characters of s from index i on, up to the first other one
RECURSIVE ZeroRun(_, _)
ZeroRun(s, i) ==
    IF i <= Len(s) /\ s[i] = "0" THEN 1 + ZeroRun(s, i + 1) ELSE 0

\* re.sub(r'(?<!\d)0+(\d+)', r'\1', s), scanning from index i.  The pattern
\* matches only where a run of digits begins (the look-behind), and there it
\* takes the whole run: 0+ gives back one zero when the run is all zeros.
RECURSIVE SubFrom(_, _)
SubFrom(s, i) ==
    IF i > Len(s) THEN <<>>
    ELSE IF s[i] \in Digit /\ (i = 1 \/ s[i - 1] \notin Digit)
              /\ ZeroRun(s, i) >= 1 /\ DigitRun(s, i) >= 2
         THEN LET k == DigitRun(s, i)
                  z == ZeroRun(s, i)
                  from == IF z = k THEN i + k - 1 ELSE i + z
              IN  SubSeq(s, from, i + k - 1) \o SubFrom(s, i + k)
         ELSE <<s[i]>> \o SubFrom(s, i + 1)

\* a substitution that gives back no zero: a run of zeros alone disappears
RECURSIVE SubDroppingZeros(_, _)
SubDroppingZeros(s, i) ==
    IF i > Len(s) THEN <<>>
    ELSE IF s[i] = "0" /\ (i = 1 \/ s[i - 1] \notin Digit)
         THEN SubSeq(s, i + ZeroRun(s, i), i + DigitRun(s, i) - 1)
                 \o SubDroppingZeros(s, i + DigitRun(s, i))
         ELSE <<s[i]>> \o SubDroppingZeros(s, i + 1)

normalize_dropping_zeros(s) == SubDroppingZeros(s, 1)

normalize_nums(s) == SubFrom(s, 1)

lines_match(line1, line2) ==
    \/ Strip(line1) = Strip(line2)
    \/ JoinSplit(line1) = JoinSplit(line2)
    \/ JoinSplit(normalize_nums(Strip(line1)))
         = JoinSplit(normalize_nums(Strip(line2)))

----------------------------------------------------------------------------
(* PatchApplier._parse_diff *)

HdrPlusB == <<"+", "+", "+", " ", "b", "/">>
HdrPlus == <<"+", "+", "+", " ">>
HdrMinusA == <<"-", "-", "-", " ", "a", "/">>

\* The path loop.  file_path None and file_path '' are both <<>>: the code
\* tells them apart nowhere (its only test is `not file_path`).
\* FindPath stopping at the first header of either kind
RECURSIVE FindPathFirstHeader(_, _, _)
FindPathFirstHeader(lines, i, file_path) ==
    IF i > Len(lines) THEN file_path
    ELSE IF StartsWith(lines[i], HdrPlusB) THEN Strip(Drop(lines[i], 6))
    ELSE IF StartsWith(lines[i], HdrPlus) THEN Strip(Drop(lines[i], 4))
    ELSE IF StartsWith(lines[i], HdrMinusA) THEN Strip(Drop(lines[i], 6))
    ELSE FindPathFirstHeader(lines, i + 1, file_path)

RECURSIVE FindPath(_, _, _)
FindPath(lines, i, file_path) ==
    IF i > Len(lines) THEN file_path
    ELSE IF StartsWith(lines[i], HdrPlusB) THEN Strip(Drop(lines[i], 6))
    ELSE IF StartsWith(lines[i], HdrPlus) THEN Strip(Drop(lines[i], 4))
    ELSE IF StartsWith(lines[i], HdrMinusA)
         THEN FindPath(lines, i + 1, Strip(Drop(lines[i], 6)))
    ELSE FindPath(lines, i + 1, file_path)

\* IsDelLine without the test for '---'
IsDelLineAnyDash(line) == StartsWith(line, <<"-">>)

\* line.startswith('-') and not line.startswith('---')
IsDelLine(line) ==
    StartsWith(line, <<"-">>) /\ ~StartsWith(line, <<"-", "-", "-">>)

\* line.startswith('+') and not line.startswith('+++')
IsAddLine(line) ==
    StartsWith(line, <<"+">>) /\ ~StartsWith(line, <<"+", "+", "+">>)

\* The changes loop, from index i (1-based).
RECURSIVE ExtractChanges(_, _)
ExtractChanges(lines, i) ==
    IF i > Len(lines) THEN <<>>
    ELSE IF IsDelLine(lines[i]) /\ i + 1 <= Len(lines) /\ IsAddLine(lines[i + 1])
         THEN <<[old |-> Drop(lines[i], 1), new |-> Drop(lines[i + 1], 1)]>>
                  \o ExtractChanges(lines, i + 2)
         ELSE ExtractChanges(lines, i + 1)

\* The result None
NoDocument == [found |-> FALSE, path |-> <<>>, changes |-> <<>>]

\* lines is patch_content.split('\n')
parse_diff(lines) ==
    LET file_path == FindPath(lines, 1, <<>>)
    IN  IF file_path = <<>> THEN NoDocument
        ELSE [found |-> TRUE, path |-> file_path,
              changes |-> ExtractChanges(lines, 1)]

----------------------------------------------------------------------------
(* Patch text: apply_patch's cleaning steps.  A patch is one string, its   *)
(* lines separated by "\n".  The code fences, "/workspace" and the path    *)
(* components are single symbols of that string.                           *)

NL == "\n"
\* the markdown fences: three backquotes, with and without "diff"
FenceDiff == "[fence]diff"
Fence == "[fence]"

Has(s, sym) == \E i \in DOMAIN s : s[i] = sym

\* s.split(sep), sep one symbol: the pieces from index i on, cur the piece
\* under way
RECURSIVE SplitFrom(_, _, _, _)
SplitFrom(s, sep, i, cur) ==
    IF i > Len(s) THEN <<cur>>
    ELSE IF s[i] = sep THEN <<cur>> \o SplitFrom(s, sep, i + 1, <<>>)
    ELSE SplitFrom(s, sep, i + 1, Append(cur, s[i]))

SplitOn(s, sep) == SplitFrom(s, sep, 1, <<>>)

\* sep.join(pieces)
RECURSIVE JoinWith(_, _)
JoinWith(pieces, sep) ==
    IF pieces = <<>> THEN <<>>
    ELSE IF Len(pieces) = 1 THEN pieces[1]
    ELSE pieces[1] \o <<sep>> \o JoinWith(Tail(pieces), sep)

\* apply_patch, "remove markdown blocks if present"
strip_fences(p) ==
    IF Has(p, FenceDiff) THEN SplitOn(SplitOn(p, FenceDiff)[2], Fence)[1]
    ELSE IF Has(p, Fence) THEN SplitOn(SplitOn(p, Fence)[2], Fence)[1]
    ELSE p

WorkspacePrefix == <<"/", "workspace", "/">>

\* s.replace(old, "")
RECURSIVE Remove(_, _)
Remove(s, old) ==
    IF s = <<>> THEN <<>>
    ELSE IF StartsWith(s, old) THEN Remove(Drop(s, Len(old)), old)
    ELSE <<Head(s)>> \o Remove(Tail(s), old)

normalize_paths(p) == Remove(p, WorkspacePrefix)

----------------------------------------------------------------------------
(* The repository: files by path, and the by-name search *)

PathSrcA == <<"src", "/", "A">>
PathTestsB == <<"tests", "/", "B">>
PathBuildA == <<"build", "/", "A">>
PathSrcMainA == <<"src", "/", "main", "/", "A">>

\* the files the repository can hold, in the order os.walk meets them: a
\* directory's files before those of its subdirectories
WalkOrder == <<PathBuildA, PathSrcA, PathSrcMainA, PathTestsB>>

RepoPaths == {WalkOrder[i] : i \in DOMAIN WalkOrder}

Absent == [exists |-> FALSE, lines |-> <<>>]

File(lines) == [exists |-> TRUE, lines |-> lines]

\* os.path.basename(path)
RECURSIVE basename(_)
basename(path) ==
    IF ~Has(path, "/") THEN path ELSE basename(Tail(path))

\* the directories on the way to the file
RECURSIVE DirsOf(_)
DirsOf(path) ==
    IF ~Has(path, "/") THEN {}
    ELSE LET k == CHOOSE i \in DOMAIN path : path[i] = "/" /\ \A j \in 1..(i - 1) : path[j] # "/"
         IN  {SubSeq(path, 1, k - 1)} \cup DirsOf(SubSeq(path, k + 1, Len(path)))

\* a walk that would enter every directory
NoPrunedDirs == {}

PrunedDirs == {<<".git">>, <<"build">>, <<".gradle">>, <<"target">>}

\* os.path.exists(os.path.join(self.repo_path, path)); the empty path is the
\* repository directory itself
Exists(fs, path) == path = <<>> \/ (path \in RepoPaths /\ fs[path].exists)

NotFound == [found |-> FALSE, path |-> <<>>]

RECURSIVE WalkFrom(_, _, _)
WalkFrom(fs, filename, i) ==
    IF i > Len(WalkOrder) THEN NotFound
    ELSE IF /\ fs[WalkOrder[i]].exists
            /\ basename(WalkOrder[i]) = filename
            /\ DirsOf(WalkOrder[i]) \cap PrunedDirs = {}
         THEN [found |-> TRUE, path |-> WalkOrder[i]]
         ELSE WalkFrom(fs, filename, i + 1)

find_file_recursive(fs, filename) == WalkFrom(fs, filename, 1)

\* one line of _smart_resolve_paths' loop
ResolveLine(fs, line) ==
    IF StartsWith(line, HdrMinusA) \/ StartsWith(line, HdrPlusB)
    THEN LET prefix == SubSeq(line, 1, 6)
             path == Strip(Drop(line, 6))
             real == find_file_recursive(fs, basename(path))
         IN  IF ~Exists(fs, path) /\ real.found THEN prefix \o real.path ELSE line
    ELSE line

smart_resolve_paths(fs, p) ==
    LET lines == SplitOn(p, NL)
    IN  JoinWith([i \in DOMAIN lines |-> ResolveLine(fs, lines[i])], NL)

\* apply_patch up to the snapshot: the patch text the strategies get
CleanPatch(fs, p) ==
    smart_resolve_paths(fs, normalize_paths(Strip(strip_fences(p))))

----------------------------------------------------------------------------
(* Strategy B: PatchApplier._try_direct_replacement *)

\* f.readlines() in text mode: a line's "\r\n" is read as "\n"
ReadLine(l) ==
    IF Len(l) >= 2 /\ l[Len(l) - 1] = "\r" /\ l[Len(l)] = "\n"
    THEN SubSeq(l, 1, Len(l) - 2) \o <<"\n">>
    ELSE l

ReadLines(file) == [i \in DOMAIN file.lines |-> ReadLine(file.lines[i])]

\* new_line + '\n' if not new_line.endswith('\n') else new_line
WithNewline(new_line) ==
    IF new_line # <<>> /\ new_line[Len(new_line)] = "\n" THEN new_line
    ELSE new_line \o <<"\n">>

\* a scan that replaces the last matching line instead of the first
RECURSIVE ReplaceLastMatch(_, _, _)
ReplaceLastMatch(lines, change, i) ==
    IF i > Len(lines) THEN [lines |-> lines, replaced |-> FALSE]
    ELSE LET rest == ReplaceLastMatch(lines, change, i + 1)
         IN  IF rest.replaced THEN rest
             ELSE IF lines_match(lines[i], change.old)
                  THEN [lines |-> [lines EXCEPT ![i] = WithNewline(change.new)],
                        replaced |-> TRUE]
                  ELSE rest

\* the inner loop: the scan of the lines for one change, from index i
RECURSIVE ReplaceFirst(_, _, _)
ReplaceFirst(lines, change, i) ==
    IF i > Len(lines) THEN [lines |-> lines, replaced |-> FALSE]
    ELSE IF lines_match(lines[i], change.old)
         THEN [lines |-> [lines EXCEPT ![i] = WithNewline(change.new)],
               replaced |-> TRUE]
         ELSE ReplaceFirst(lines, change, i + 1)

\* the outer loop: the changes from the k-th on
RECURSIVE ApplyChanges(_, _, _, _)
ApplyChanges(lines, changes, k, changes_made) ==
    IF k > Len(changes) THEN [lines |-> lines, changes_made |-> changes_made]
    ELSE \* r is the outcome of the scan for the k-th change
         CHOOSE out \in {ApplyChanges(r.lines, changes, k + 1, changes_made \/ r.replaced) :
                           r \in {ReplaceFirst(lines, changes[k], 1)}} : TRUE

\* What the call did: ret its result, parsed whether _parse_diff gave a
\* document, target the file it opened (<<>>: none), wrote whether it wrote
\* the file back, fs the working tree it leaves.
DirectFailed(fs, parsed_ok, target) ==
    [ret |-> FALSE, parsed |-> parsed_ok, target |-> target, wrote |-> FALSE, fs |-> fs]

\* lines 229-263: the file is read, changed and, when a change was made,
\* written back
DirectOn(fs, file_path, changes) ==
    CHOOSE out \in
        {IF ~r.changes_made THEN DirectFailed(fs, TRUE, file_path)
         ELSE [ret |-> TRUE, parsed |-> TRUE, target |-> file_path, wrote |-> TRUE,
               fs |-> [fs EXCEPT ![file_path] = File(r.lines)]] :
           r \in {ApplyChanges(ReadLines(fs[file_path]), changes, 1, FALSE)}} : TRUE

\* lines 214-227: no document, or no file to open, fails the call
DirectParsed(fs, file_info) ==
    IF ~file_info.found THEN DirectFailed(fs, FALSE, <<>>)
    ELSE IF Exists(fs, file_info.path) THEN DirectOn(fs, file_info.path, file_info.changes)
    ELSE IF find_file_recursive(fs, basename(file_info.path)).found
         THEN DirectOn(fs, find_file_recursive(fs, basename(file_info.path)).path,
                       file_info.changes)
    ELSE DirectFailed(fs, TRUE, <<>>)

\* a Strategy B that, given no document, would apply the line pairs of the
\* text to the first file of the repository
try_direct_any_file(fs, lines) ==
    IF parse_diff(lines).found THEN DirectParsed(fs, parse_diff(lines))
    ELSE IF \E k \in DOMAIN WalkOrder : fs[WalkOrder[k]].exists
         THEN DirectOn(fs,
                       WalkOrder[CHOOSE k \in DOMAIN WalkOrder :
                                    /\ fs[WalkOrder[k]].exists
                                    /\ \A j \in 1..(k - 1) : ~fs[WalkOrder[j]].exists],
                       ExtractChanges(lines, 1))
         ELSE DirectFailed(fs, FALSE, <<>>)

\* lines is patch_content.split('\n')
try_direct_replacement(fs, lines) ==
    CHOOSE out \in {DirectParsed(fs, file_info) : file_info \in {parse_diff(lines)}} : TRUE

----------------------------------------------------------------------------
(* git, as PatchApplier drives it *)

\* source_dirs of _create_clean_snapshot: does a `git add <pattern>` take path
MatchesSourceDirs(path) ==
    \/ StartsWith(path, <<"src", "/">>)
    \/ StartsWith(path, <<"gradle", "/">>)
    \/ /\ path # <<>>
       /\ path[Len(path)] \in {".gradle", ".xml", ".yml", ".yaml", ".properties"}

\* the `git add` loop: the matching paths are staged as the tree has them
GitAddSourceDirs(fs, idx) ==
    [p \in RepoPaths |-> IF MatchesSourceDirs(p) THEN fs[p] ELSE idx[p]]

\* git reset --hard HEAD: the tree a tracked path gets.  A path neither in
\* HEAD nor in the index is untracked and stays.
GitResetHard(fs, idx, hd) ==
    [p \in RepoPaths |->
        IF hd[p].exists THEN hd[p]
        ELSE IF idx[p].exists THEN Absent
        ELSE fs[p]]

\* The file sections of a patch for git: a '+++ b/<path>' header and the
\* changes up to the next such header.
PlusBAt(lines) == {i \in DOMAIN lines : StartsWith(lines[i], HdrPlusB)}

NextHeader(lines, i) ==
    IF \E j \in PlusBAt(lines) : j > i
    THEN CHOOSE j \in PlusBAt(lines) : j > i /\ \A k \in PlusBAt(lines) : k > i => j <= k
    ELSE Len(lines) + 1

SectionAt(lines, i) ==
    [path |-> Strip(Drop(lines[i], 6)),
     changes |-> ExtractChanges(SubSeq(lines, i + 1, NextHeader(lines, i) - 1), 1)]

\* the sections from line i on
RECURSIVE SectionsFrom(_, _)
SectionsFrom(lines, i) ==
    IF i > Len(lines) THEN <<>>
    ELSE IF i \in PlusBAt(lines)
         THEN <<SectionAt(lines, i)>> \o SectionsFrom(lines, i + 1)
         ELSE SectionsFrom(lines, i + 1)

\* The contents git apply can leave of a file: each change replaces one line
\* that equals its old text up to whitespace (--ignore-whitespace); which
\* one is for the hunk's position to say, which the patch text here omits.
RECURSIVE GitPatched(_, _, _)
GitPatched(lines, changes, k) ==
    IF k > Len(changes) THEN {lines}
    ELSE UNION {GitPatched([lines EXCEPT ![i] = changes[k].new \o <<NL>>], changes, k + 1) :
                  i \in {j \in DOMAIN lines : JoinSplit(lines[j]) = JoinSplit(changes[k].old)}}

\* the trees git apply can leave when it applies the sections from the k-th on
RECURSIVE GitApplied(_, _, _)
GitApplied(fs, sections, k) ==
    IF k > Len(sections) THEN {fs}
    ELSE UNION {GitApplied([fs EXCEPT ![sections[k].path] = File(ls)], sections, k + 1) :
                  ls \in GitPatched(fs[sections[k].path].lines, sections[k].changes, 1)}

\* a line git apply --3way writes into a file it could only merge with conflicts
ConflictMarker == <<"<<<<<<<", " ", "ours", NL>>

ModeHeader == <<"new mode ">>

\* a patch of git's own that changes a file's mode only: it has no '---' or
\* '+++' line at all
IsModeChange(lines) == \E i \in DOMAIN lines : StartsWith(lines[i], ModeHeader)

\* What `git apply --whitespace=fix --3way --ignore-space-change
\* --ignore-whitespace` can do with the patch: its exit code and the tree it
\* leaves (--3way works through the index: the files must be in it).
\*  - it can reject any patch and leave the tree alone;
\*  - it can apply a patch all of whose sections name files of the index;
\*  - it can fall back to the 3-way merge, write the conflict markers into
\*    the file and exit with 1;
\*  - it applies a mode change, which leaves every file's content alone.
GitApplyOutcomes(fs, idx, lines) ==
    LET sections == SectionsFrom(lines, 1)
        applicable ==
            /\ sections # <<>>
            /\ \A k \in DOMAIN sections :
                  /\ sections[k].path \in RepoPaths
                  /\ fs[sections[k].path].exists
                  /\ idx[sections[k].path].exists
                  /\ sections[k].changes # <<>>
        first == sections[1].path
    IN  {[returncode |-> 1, fs |-> fs]}
        \cup (IF applicable
              THEN {[returncode |-> 0, fs |-> g] : g \in GitApplied(fs, sections, 1)}
                   \cup {[returncode |-> 1,
                          fs |-> [fs EXCEPT ![first] =
                                    File(<<ConflictMarker>> \o fs[first].lines)]]}
              ELSE {})
        \cup (IF IsModeChange(lines) /\ sections = <<>>
                  /\ \E q \in RepoPaths : fs[q].exists /\ idx[q].exists
              THEN {[returncode |-> 0, fs |-> fs]}
              ELSE {})

----------------------------------------------------------------------------
(* Classifier: FailureAnalyzer._classify_issue *)

\* Failure texts are sequences of word fragments, so that an indicator can
\* be cut across two fields of the triple.
scripting_indicators ==
    << <<"NoSuchElement", "Exception">>,
       <<"ElementNotFound", "Exception">>,
       <<"StaleElementReference", "Exception">>,
       <<"Assertion", "Error">>,
       <<"Comparison", "Failure">>,
       <<"junit.framework.", "Assertion", "FailedError">> >>

system_indicators ==
    << <<"Connect", "Exception">>,
       <<"SocketTimeout", "Exception">>,
       <<"OutOfMemory", "Error">>,
       <<"SQL", "Exception">> >>

\* f"{failure_type} {message} {stack_trace}"
full_text(failure_type, message, stack_trace) ==
    failure_type \o <<" ">> \o message \o <<" ">> \o stack_trace

\* for indicator in indicators: if indicator in full_text: return True
RECURSIVE AnyIndicator(_, _, _)
AnyIndicator(indicators, i, txt) ==
    IF i > Len(indicators) THEN FALSE
    ELSE IF Contains(txt, indicators[i]) THEN TRUE
    ELSE AnyIndicator(indicators, i + 1, txt)

\* classify_issue looking for the scripting indicators first
classify_scripting_first(failure_type, message, stack_trace) ==
    LET txt == full_text(failure_type, message, stack_trace)
    IN  IF AnyIndicator(scripting_indicators, 1, txt) THEN TRUE
        ELSE FALSE

\* classify_issue with an unknown failure taken for a scripting issue
classify_default_true(failure_type, message, stack_trace) ==
    LET txt == full_text(failure_type, message, stack_trace)
    IN  IF AnyIndicator(system_indicators, 1, txt) THEN FALSE
        ELSE TRUE

classify_issue(failure_type, message, stack_trace) ==
    LET txt == full_text(failure_type, message, stack_trace)
    IN  IF AnyIndicator(system_indicators, 1, txt) THEN FALSE
        ELSE IF AnyIndicator(scripting_indicators, 1, txt) THEN TRUE
        ELSE FALSE

----------------------------------------------------------------------------
(* FailureAnalyzer.analyze and _parse_file.  A report file has a name, cut *)
(* into prefix, stem and suffix, and a document: an element tree, or       *)
(* malformed text.  The directory is the list of its files as os.walk      *)
(* meets them.                                                             *)

Element(tag, attrib, txt, children) ==
    [tag |-> tag, attrib |-> attrib, text |-> txt, children |-> children]

\* the attributes main's collaborators read; "" stands for an absent one
Attrib(name, type, message) == [name |-> name, type |-> type, message |-> message]

\* what Element.find returns when there is no such child
None == Element("", Attrib(<<>>, <<>>, <<>>), <<>>, <<>>)

\* Element.findall(tag): the direct children with that tag, in document order
findall(el, tag) ==
    LET HasTag(c) == c.tag = tag
    IN  SelectSeq(el.children, HasTag)

\* Element.find(tag): the first of them
find(el, tag) ==
    IF findall(el, tag) = <<>> THEN None ELSE findall(el, tag)[1]

\* attrib.get(key, default)
GetOr(value, default) == IF value = <<>> THEN default ELSE value

\* line 52: issue = failure if failure is not None else error
FailureElseError(fail, err) == IF fail # None THEN fail ELSE err

\* lines 50-70: the context of one testcase, as a list of none or one
ContextsOfCase(suite, testcase) ==
    LET issue == FailureElseError(find(testcase, "failure"), find(testcase, "error"))
    IN  IF issue = None THEN <<>>
        ELSE << [test_class |-> GetOr(suite.attrib.name, <<"Unknown">>),
                 test_name |-> GetOr(testcase.attrib.name, <<"Unknown">>),
                 failure_type |-> GetOr(issue.attrib.type, <<"Unknown">>),
                 message |-> issue.attrib.message,
                 stack_trace |-> issue.text,
                 \* file_path is not given: the dataclass default, None
                 file_path |-> <<>>,
                 is_scripting_issue |->
                     classify_issue(GetOr(issue.attrib.type, <<"Unknown">>),
                                    issue.attrib.message, issue.text)] >>

\* lines 49-70 for the testcases of a suite from the k-th on
RECURSIVE ContextsOfCases(_, _, _)
ContextsOfCases(suite, cases, k) ==
    IF k > Len(cases) THEN <<>>
    ELSE ContextsOfCase(suite, cases[k]) \o ContextsOfCases(suite, cases, k + 1)

\* lines 46-70 for the suites from the k-th on
RECURSIVE ContextsOfSuites(_, _)
ContextsOfSuites(suites, k) ==
    IF k > Len(suites) THEN <<>>
    ELSE ContextsOfCases(suites[k], findall(suites[k], "testcase"), 1)
            \o ContextsOfSuites(suites, k + 1)

\* lines 42-44
SuitesOf(root) ==
    IF root.tag = "testsuites" THEN findall(root, "testsuite")
    ELSE IF root.tag = "testsuite" THEN <<root>>
    ELSE findall(root, "testsuite")

\* _parse_file: ET.parse raises ParseError on malformed text, which is
\* caught before any context is made
parse_file(file) ==
    IF ~file.wellformed THEN <<>>
    ELSE ContextsOfSuites(SuitesOf(file.root), 1)

\* line 28
IsReportName(name) == name[Len(name)] = ".xml" /\ name[1] = "TEST-"

\* lines 26-30 for the files from the k-th on
RECURSIVE AnalyzeFiles(_, _)
AnalyzeFiles(files, k) ==
    IF k > Len(files) THEN <<>>
    ELSE (IF IsReportName(files[k].name) THEN parse_file(files[k]) ELSE <<>>)
            \o AnalyzeFiles(files, k + 1)

\* an analyze that would give up at the first malformed report
analyze_until_malformed(dir) ==
    IF ~dir.exists THEN <<>>
    ELSE LET bad == {k \in DOMAIN dir.files :
                        IsReportName(dir.files[k].name) /\ ~dir.files[k].wellformed}
         IN  IF bad = {} THEN AnalyzeFiles(dir.files, 1)
             ELSE AnalyzeFiles(SubSeq(dir.files, 1,
                                      (CHOOSE k \in bad : \A j \in bad : k <= j) - 1), 1)

analyze(dir) ==
    IF ~dir.exists THEN <<>> ELSE AnalyzeFiles(dir.files, 1)

----------------------------------------------------------------------------
(* Bounded inputs *)

\* the sequences over S of length lo..hi
SeqsOf(S, lo, hi) == UNION {[1..k -> S] : k \in lo..hi}

MaxDiffLines == 5

LOldA == <<"-", "-", "-", " ", "a", "/", "A">>
LNewA == <<"+", "+", "+", " ", "b", "/", "A">>
LNewBareB == <<"+", "+", "+", " ", "B">>
LNewEmpty == <<"+", "+", "+", " ">>
LDelX == <<"-", "x">>
LAddY == <<"+", "y">>
LDelY == <<"-", "y">>
LCtx == <<" ", "x">>

DiffLines == {LOldA, LNewA, LNewBareB, LNewEmpty, LDelX, LAddY, LDelY, LCtx}

\* str.split('\n') never returns an empty list
DiffTexts == SeqsOf(DiffLines, 1, MaxDiffLines)

MaxWords == 4

Words == {"Connect", "Exception", "Assertion", "Error", "at"}

\* the triples of texts over Words with at most MaxWords words in all: a
\* text of at most MaxWords words cut at two places
Failures ==
    {<<SubSeq(w, 1, c[1]), SubSeq(w, c[1] + 1, c[2]), SubSeq(w, c[2] + 1, Len(w))>> :
        <<w, c>> \in {x \in SeqsOf(Words, 0, MaxWords) \X ((0..MaxWords) \X (0..MaxWords)) :
                        x[2][1] <= x[2][2] /\ x[2][2] <= Len(x[1])}}

MaxFileLines == 2

MaxEdits == 2

MaxOps == 2

LineX == <<"x", NL>>
LineY == <<"y", NL>>
LineXIndented == <<" ", "x", NL>>

LAddX == <<"+", "x">>
EditXY == <<LDelX, LAddY>>
EditYX == <<LDelY, LAddX>>

\* the '--- a/<path>' and '+++ b/<path>' lines of a file section
Header(path) == <<HdrMinusA \o path, HdrPlusB \o path>>

RECURSIVE Flatten(_)
Flatten(ss) == IF ss = <<>> THEN <<>> ELSE Head(ss) \o Flatten(Tail(ss))

\* the bodies of at most MaxEdits '-'/'+' line pairs
Bodies == {Flatten(es) : es \in SeqsOf({EditXY, EditYX}, 0, MaxEdits)}

PathStaleA == <<"A">>
PathMissingC == <<"C">>
PathDockerA == WorkspacePrefix \o PathSrcA

ModeChangePatch ==
    << <<"diff --git ", "a", "/", "src", "/", "A", " ", "b", "/", "src", "/", "A">>,
       <<"old mode ", "100644">>,
       <<"new mode ", "100755">> >>

\* the patches as lists of lines:
\*  - one file section naming src/A, with every body;
\*  - one file section with a stale, a foreign, an unknown or a container
\*    path, and one line pair;
\*  - no header at all;
\*  - two file sections.
PatchLines ==
    {Header(PathSrcA) \o b : b \in Bodies}
    \cup {Header(q) \o e : q \in {PathStaleA, PathTestsB, PathMissingC, PathDockerA},
                           e \in {EditXY}}
    \cup {EditXY, ModeChangePatch}
    \cup {Header(q[1]) \o EditXY \o Header(q[2]) \o e :
             q \in {<<PathMissingC, PathSrcA>>, <<PathSrcA, PathTestsB>>},
             e \in {EditXY, EditYX}}

\* a patch in a markdown fence, after a line of prose
Fenced(p) == <<"Fix", ":", NL, FenceDiff, NL>> \o p \o <<NL, Fence, NL>>

\* the patch texts apply_patch is given
Patches ==
    {JoinWith(ls, NL) : ls \in PatchLines}
    \cup {Fenced(JoinWith(Header(PathSrcA) \o EditXY, NL))}

\* the contents of src/A and of tests/B
ContentsA == {File(ls) : ls \in SeqsOf({LineX, LineY}, 0, MaxFileLines)}

ContentsB == {Absent, File(<<LineXIndented>>)}

----------------------------------------------------------------------------
(* The parser and the classifier as one-step machines over their inputs *)

NoCall == [stages |-> <<>>]

\* the applier's variables in the machines that do not use it
ApplierUnused ==
    /\ raw = <<>>
    /\ tree = [p \in RepoPaths |-> Absent]
    /\ index = [p \in RepoPaths |-> Absent]
    /\ head = [p \in RepoPaths |-> Absent]
    /\ pc = "idle"
    /\ patch_content = <<>>
    /\ call = NoCall
    /\ log = <<>>

\* main() not started
NoMain == [pc |-> "off"]

\* the variables of the functions called on their own and of main, in the
\* machines that do not use them
OthersUnused ==
    /\ input = <<>>
    /\ output = NotRun
    /\ main = NoMain

InitParse ==
    /\ text \in DiffTexts
    /\ parsed = NotRun
    /\ failure = <<>>
    /\ verdict = NotRun
    /\ ApplierUnused
    /\ OthersUnused

ParseDiff ==
    /\ ~parsed.ran
    /\ parsed' = [ran |-> TRUE, doc |-> parse_diff(text)]
    /\ UNCHANGED <<text, classVars, applyVars, otherVars>>

NextParse == ParseDiff

SpecParse == InitParse /\ [][NextParse]_vars

InitClassify ==
    /\ failure \in Failures
    /\ verdict = NotRun
    /\ text = <<>>
    /\ parsed = NotRun
    /\ ApplierUnused
    /\ OthersUnused

ClassifyIssue ==
    /\ ~verdict.ran
    /\ verdict' = [ran |-> TRUE,
                   is_scripting |-> classify_issue(failure[1], failure[2], failure[3])]
    /\ UNCHANGED <<failure, parseVars, applyVars, otherVars>>

NextClassify == ClassifyIssue

SpecClassify == InitClassify /\ [][NextClassify]_vars

----------------------------------------------------------------------------
(* PatchApplier: apply_patch, stage by stage, and revert_changes *)

\* a repository holding src/A and tests/B with the given files: no build
\* output yet, and no second file of the same name
Repo(a, b) ==
    [q \in RepoPaths |-> IF q = PathSrcA THEN a
                         ELSE IF q = PathTestsB THEN b
                         ELSE Absent]

Init ==
    /\ raw \in Patches
    /\ \E a \in ContentsA, b \in ContentsB : tree = Repo(a, b)
    \* src/A is committed as it is, or untracked; tests/B, when there, was
    \* committed with another content
    /\ \E a \in {tree[PathSrcA], Absent} :
          head = Repo(a, IF tree[PathTestsB].exists THEN File(<<LineY>>) ELSE Absent)
    /\ index = head
    /\ pc = "idle"
    /\ patch_content = <<>>
    /\ call = NoCall
    /\ log = <<>>
    /\ text = <<>>
    /\ parsed = NotRun
    /\ failure = <<>>
    /\ verdict = NotRun
    /\ OthersUnused

\* apply_patch, lines 15-27: the patch is cleaned and its paths corrected
BeginApply ==
    /\ pc = "idle"
    /\ Len(log) < MaxOps
    /\ patch_content' = SplitOn(CleanPatch(tree, raw), NL)
    /\ call' = [stages |-> <<>>, pre |-> tree, patch |-> patch_content']
    /\ pc' = "snapshot"
    /\ UNCHANGED <<raw, tree, index, head, log, parseVars, classVars, otherVars>>

\* _create_clean_snapshot: the `git add` loop and the commit.  The commit
\* fails when nothing is staged, and can fail otherwise (no committer
\* identity, a hook): the code goes on either way.
CreateCleanSnapshot ==
    /\ pc = "snapshot"
    /\ LET staged == GitAddSourceDirs(tree, index)
       IN  /\ index' = staged
           /\ \E returncode \in {0, 1} :
                /\ returncode = 0 => staged # head
                /\ head' = IF returncode = 0 THEN staged ELSE head
                /\ call' = [call EXCEPT !.stages = Append(@, "snapshot")]
                              @@ [committed |-> returncode = 0]
    /\ pc' = "git_apply"
    /\ UNCHANGED <<raw, tree, patch_content, log, parseVars, classVars, otherVars>>

\* the end of apply_patch: its result joins the log
Finished(c, ret, fs) == [op |-> "apply", ret |-> ret, tree |-> fs] @@ c

\* Strategy A, _try_git_apply, and apply_patch's return when it succeeds
TryGitApply ==
    /\ pc = "git_apply"
    /\ \E out \in GitApplyOutcomes(tree, index, patch_content) :
         LET c == [call EXCEPT !.stages = Append(@, "git_apply")]
                     @@ [a_ok |-> out.returncode = 0, after_a |-> out.fs]
         IN  /\ tree' = out.fs
             /\ index' = IF out.returncode = 0
                         THEN [q \in RepoPaths |->
                                  IF out.fs[q] # tree[q] THEN out.fs[q] ELSE index[q]]
                         ELSE index
             /\ IF out.returncode = 0
                THEN /\ pc' = "idle"
                     /\ call' = NoCall
                     /\ log' = Append(log, Finished(c, TRUE, out.fs))
                ELSE /\ pc' = "direct"
                     /\ call' = c
                     /\ log' = log
    /\ UNCHANGED <<raw, head, patch_content, parseVars, classVars, otherVars>>

\* Strategy B, _try_direct_replacement, and apply_patch's return after it
TryDirectReplacement ==
    /\ pc = "direct"
    /\ \E b \in {try_direct_replacement(tree, patch_content)} :
         /\ tree' = b.fs
         /\ log' = Append(log,
                Finished([call EXCEPT !.stages = Append(@, "direct")]
                            @@ [b |-> [ret |-> b.ret, parsed |-> b.parsed,
                                       target |-> b.target, wrote |-> b.wrote]],
                         b.ret, b.fs))
    /\ pc' = "idle"
    /\ call' = NoCall
    /\ UNCHANGED <<raw, index, head, patch_content, parseVars, classVars, otherVars>>

\* revert_changes: git reset --hard HEAD.  main calls it after an apply_patch.
RevertChanges ==
    /\ pc = "idle"
    /\ log # <<>>
    /\ log[Len(log)].op = "apply"
    /\ Len(log) < MaxOps
    /\ tree' = GitResetHard(tree, index, head)
    /\ index' = head
    /\ log' = Append(log, [op |-> "revert", tree |-> tree'])
    /\ UNCHANGED <<raw, head, pc, patch_content, call, parseVars, classVars, otherVars>>

Next ==
    \/ BeginApply
    \/ CreateCleanSnapshot
    \/ TryGitApply
    \/ TryDirectReplacement
    \/ RevertChanges

Spec == Init /\ [][Next]_vars

----------------------------------------------------------------------------
(* FailureAnalyzer.analyze as a one-step machine over its inputs *)

MaxFiles == 2

Issue(tag, type, trace) == Element(tag, Attrib(<<>>, type, <<"expected">>), trace, <<>>)

FailureAssertion == Issue("failure", <<"Assertion", "Error">>, <<"at", "Test">>)
ErrorConnect == Issue("error", <<"Connect", "Exception">>, <<>>)
ErrorUntyped == Issue("error", <<>>, <<"junit.framework.", "Assertion", "FailedError">>)
SystemOut == Element("system-out", Attrib(<<>>, <<>>, <<>>), <<"log">>, <<>>)

TestCase(name, children) == Element("testcase", Attrib(name, <<>>, <<>>), <<>>, children)

CasePassed == TestCase(<<"testOk">>, <<SystemOut>>)
CaseFailed == TestCase(<<"testGet">>, <<FailureAssertion>>)
CaseErrored == TestCase(<<"testPost">>, <<SystemOut, ErrorConnect>>)
CaseBoth == TestCase(<<>>, <<ErrorUntyped, FailureAssertion>>)

Suite(name, cases) == Element("testsuite", Attrib(name, <<>>, <<>>), <<>>, cases)

Suites ==
    { Suite(<<"UserTest">>, <<>>),
      Suite(<<"UserTest">>, <<CasePassed>>),
      Suite(<<"UserTest">>, <<CaseFailed>>),
      Suite(<<>>, <<CasePassed, CaseErrored>>),
      Suite(<<"OrderTest">>, <<CaseBoth, SystemOut, CaseFailed>>) }

\* the roots: a suite, a testsuites element or another element holding suites
Roots ==
    Suites
    \cup {Element("testsuites", Attrib(<<>>, <<>>, <<>>), <<>>, ss) :
            ss \in {<<Suite(<<"UserTest">>, <<CaseFailed>>)>>,
                    <<Suite(<<>>, <<CasePassed, CaseErrored>>),
                      Suite(<<"OrderTest">>, <<CaseBoth, SystemOut, CaseFailed>>)>>}}
    \cup {Element("testng-results", Attrib(<<>>, <<>>, <<>>), <<>>,
                  <<SystemOut, Suite(<<"UserTest">>, <<CaseFailed>>)>>)}

ReportFile(name, wellformed, root) == [name |-> name, wellformed |-> wellformed, root |-> root]

\* the files of the results directory: the reports, a malformed report, and
\* files whose names are not those of a report
ReportFiles ==
    {ReportFile(<<"TEST-", "User", ".xml">>, TRUE, r) : r \in Roots}
    \cup {ReportFile(<<"TEST-", "User", ".xml">>, FALSE, None)}
    \cup {ReportFile(n, TRUE, Suite(<<"UserTest">>, <<CaseFailed>>)) :
            n \in {<<"User", ".xml">>, <<"TEST-", "User", ".txt">>}}

Directories ==
    {[exists |-> FALSE, files |-> <<>>]}
    \cup {[exists |-> TRUE, files |-> fs] : fs \in SeqsOf(ReportFiles, 0, MaxFiles)}

\* the variables of the patch engine and of main, in the machines of the
\* functions called on their own
FunctionOnly ==
    /\ text = <<>>
    /\ parsed = NotRun
    /\ failure = <<>>
    /\ verdict = NotRun
    /\ ApplierUnused
    /\ main = NoMain

FunctionFrame == UNCHANGED <<parseVars, classVars, applyVars, input, main>>

InitAnalyze ==
    /\ input \in Directories
    /\ output = NotRun
    /\ FunctionOnly

AnalyzeDirectory ==
    /\ ~output.ran
    /\ output' = [ran |-> TRUE, failures |-> analyze(input)]
    /\ FunctionFrame

NextAnalyze == AnalyzeDirectory

SpecAnalyze == InitAnalyze /\ [][NextAnalyze]_vars

----------------------------------------------------------------------------
(* _find_file_recursive and _smart_resolve_paths as one-step machines *)

\* the repositories: every file there or not
Trees == [RepoPaths -> {Absent, File(<<LineX>>)}]

\* the names searched: of files, of no file, and of a directory
FileNames == {<<"A">>, <<"B">>, <<"C">>, <<"main">>}

InitFind ==
    /\ input \in [fs : Trees, filename : FileNames]
    /\ output = NotRun
    /\ FunctionOnly

FindFileRecursive ==
    /\ ~output.ran
    /\ output' = [ran |-> TRUE, real_path |-> find_file_recursive(input.fs, input.filename)]
    /\ FunctionFrame

NextFind == FindFileRecursive

SpecFind == InitFind /\ [][NextFind]_vars

\* header lines without the a/ and b/ prefixes
BareHeader(path) == << <<"-", "-", "-", " ">> \o path, HdrPlus \o path >>

\* the patches whose paths are to be corrected: headers with a stale, a
\* right, an unknown path, headers without prefix, no header, two sections
ResolvePatches ==
    {JoinWith(ls, NL) :
        ls \in {Header(PathStaleA) \o EditXY,
                Header(PathSrcA) \o EditXY,
                Header(PathMissingC) \o EditXY,
                Header(<<"lib", "/", "B">>) \o EditYX,
                BareHeader(PathStaleA) \o EditXY,
                EditXY,
                Header(PathStaleA) \o EditXY \o Header(<<"B">>) \o EditYX}}

InitResolve ==
    /\ input \in [fs : Trees, patch_content : ResolvePatches]
    /\ output = NotRun
    /\ FunctionOnly

\* the call, and a second call on its result
SmartResolvePaths ==
    /\ ~output.ran
    /\ \E once \in {smart_resolve_paths(input.fs, input.patch_content)} :
         output' = [ran |-> TRUE, once |-> once,
                    twice |-> smart_resolve_paths(input.fs, once)]
    /\ FunctionFrame

NextResolve == SmartResolvePaths

SpecResolve == InitResolve /\ [][NextResolve]_vars

----------------------------------------------------------------------------
(* _lines_match as a one-step machine *)

MaxLineLen == 3

\* the characters of the lines compared: digits, a letter, blank and tab
LineChars == {"0", "1", "x", " ", "\t"}

MatchLines == UNION {[1..n -> LineChars] : n \in 0..MaxLineLen}

InitMatch ==
    /\ input \in [line1 : MatchLines, line2 : MatchLines]
    /\ output = NotRun
    /\ FunctionOnly

LinesMatch ==
    /\ ~output.ran
    /\ output' = [ran |-> TRUE, match |-> lines_match(input.line1, input.line2)]
    /\ FunctionFrame

NextMatch == LinesMatch

SpecMatch == InitMatch /\ [][NextMatch]_vars

----------------------------------------------------------------------------
(* _try_direct_replacement on files of either line-ending convention *)

LineXCrLf == <<"x", "\r", NL>>
LineYCrLf == <<"y", "\r", NL>>

\* the files: lines that end in LF or in CRLF, the last one possibly
\* without a terminator
EndedLines == {LineX, LineY, LineXCrLf, LineYCrLf}

DirectFiles ==
    {File(ls) : ls \in SeqsOf(EndedLines, 0, MaxFileLines)}
    \cup {File(Append(ls, l)) :
            ls \in SeqsOf(EndedLines, 0, MaxFileLines - 1), l \in {<<"x">>, <<"y">>}}

\* patch_content.split('\n') of the patches: to src/A by its path or by its
\* name, to a file that is nowhere, and one without a header
DirectPatches ==
    {Header(PathSrcA) \o EditXY,
     Header(PathSrcA) \o EditYX,
     Header(PathSrcA) \o EditXY \o EditYX,
     Header(PathStaleA) \o EditXY,
     Header(PathMissingC) \o EditXY,
     EditXY}

InitDirect ==
    /\ input \in [fs : {Repo(a, b) : a \in DirectFiles, b \in {Absent, File(<<LineX, LineY>>)}},
                  lines : DirectPatches]
    /\ output = NotRun
    /\ FunctionOnly

DirectReplacement ==
    /\ ~output.ran
    /\ output' = [ran |-> TRUE, result |-> try_direct_replacement(input.fs, input.lines)]
    /\ FunctionFrame

NextDirect == DirectReplacement

SpecDirect == InitDirect /\ [][NextDirect]_vars

----------------------------------------------------------------------------
(* SecurityUtils: redact_text and safe_print *)

_SENSITIVE_KEYS == <<"GITHUB_TOKEN", "GEMINI_API_KEY", "OPENAI_API_KEY", "ANTHROPIC_API_KEY">>

Redacted == <<"[", "R", "E", "D", "A", "C", "T", "E", "D", "]">>

\* s.replace(old, new) for a non-empty old: the occurrences from the left,
\* none overlapping another
RECURSIVE Replace(_, _, _)
Replace(s, old, new) ==
    IF Len(s) < Len(old) THEN s
    ELSE IF StartsWith(s, old) THEN new \o Replace(Drop(s, Len(old)), old, new)
    ELSE <<Head(s)>> \o Replace(Tail(s), old, new)

\* the loop over the keys from the k-th on; os.getenv gives <<>> for a
\* variable that is unset or empty
RECURSIVE RedactKeys(_, _, _)
RedactKeys(env, redacted_text, k) ==
    IF k > Len(_SENSITIVE_KEYS) THEN redacted_text
    ELSE LET secret_value == env[_SENSITIVE_KEYS[k]]
         IN  IF secret_value # <<>> /\ Len(secret_value) > 4
             THEN RedactKeys(env, Replace(redacted_text, secret_value, Redacted), k + 1)
             ELSE RedactKeys(env, redacted_text, k + 1)

redact_text(env, txt) == IF txt = <<>> THEN <<>> ELSE RedactKeys(env, txt, 1)

MaxChunks == 2

\* the values of the variables: none, one of four characters, two longer
\* ones, and one that is part of the replacement text
Unset == <<>>
ValueShort == <<"a", "b", "c", "d">>
ValueLong == <<"a", "b", "c", "d", "e">>
ValueToken == <<"g", "h", "p", "_", "1", "2">>
ValueInMarker == <<"D", "A", "C", "T", "E">>

SecretValues == {Unset, ValueShort, ValueLong, ValueToken, ValueInMarker}

Environments == [{_SENSITIVE_KEYS[k] : k \in DOMAIN _SENSITIVE_KEYS} -> SecretValues]

Chunks == {ValueShort, ValueLong, ValueToken, ValueInMarker, <<" ">>}

RECURSIVE Concat(_)
Concat(pieces) == IF pieces = <<>> THEN <<>> ELSE Head(pieces) \o Concat(Tail(pieces))

Messages == {Concat(ps) : ps \in SeqsOf(Chunks, 0, MaxChunks)}

InitRedact ==
    /\ input \in [env : Environments, message : Messages]
    /\ output = NotRun
    /\ FunctionOnly

RedactText ==
    /\ ~output.ran
    /\ output' = [ran |-> TRUE, op |-> "redact_text",
                  text |-> redact_text(input.env, input.message)]
    /\ FunctionFrame

\* safe_print: the text given to print
SafePrint ==
    /\ ~output.ran
    /\ \E sanitized_message \in {redact_text(input.env, input.message)} :
         output' = [ran |-> TRUE, op |-> "safe_print", text |-> sanitized_message]
    /\ FunctionFrame

NextRedact == RedactText \/ SafePrint

SpecRedact == InitRedact /\ [][NextRedact]_vars

----------------------------------------------------------------------------
(* main(): the repair loop, lines 93-279.  The collaborators (the test     *)
(* run, the analyzer, the model client, GitHubManager, PatchApplier) give  *)
(* any of the results their code can give; an exception none of main's     *)
(* lines catches ends the process.                                         *)

MaxAttempts == 2

MaxConfidence == 2

\* config.yml as ConfigLoader accepts it: max_attempts is required,
\* good_confidence_threshold and github are not
Missing == [present |-> FALSE, value |-> 0]

Thresholds == {Missing, [present |-> TRUE, value |-> 1]}

\* FailureContext, as far as main reads it
FailureContext(name, is_scripting) ==
    [test_name |-> name, is_scripting_issue |-> is_scripting]

NoFailure == FailureContext("none", FALSE)

\* the lists analyzer.analyze() can return
FailureLists ==
    { <<>>,
      <<FailureContext("t1", FALSE)>>,
      <<FailureContext("t1", TRUE)>>,
      <<FailureContext("t1", FALSE), FailureContext("t2", TRUE)>> }

IsScriptingIssue(f) == f.is_scripting_issue

IsAnyIssue(f) == TRUE

\* a selection that would keep every failure
all_failures(failures) == SelectSeq(failures, IsAnyIssue)

\* line 114
scripting_failures(failures) == SelectSeq(failures, IsScriptingIssue)

\* what main has done, oldest first: one entry per call it makes to a
\* collaborator and one for the way it ends
Event(op, attempt, val) == [op |-> op, attempt |-> attempt, val |-> val]

Emit(m, op, val) == [m EXCEPT !.events = Append(@, Event(op, m.attempt, val))]

\* current_attempt["status"] = status: current_attempt is the last entry of
\* repair_history
SetStatus(m, status) ==
    [m EXCEPT !.repair_history[Len(m.repair_history)].status = status]

\* an exception leaves main
Crash(m) == [Emit(m, "crash", m.pc) EXCEPT !.pc = "crashed"]

\* a break, or the loop's else branch: the loop is over
EndLoop(m, how) == [Emit(m, "end", how) EXCEPT !.pc = "done"]

MainOnly ==
    /\ text = <<>>
    /\ parsed = NotRun
    /\ failure = <<>>
    /\ verdict = NotRun
    /\ ApplierUnused
    /\ input = <<>>
    /\ output = NotRun

\* lines 69-91: the state on entry to the loop
InitMain ==
    /\ \E max_attempts \in 0..MaxAttempts, enabled \in BOOLEAN, threshold \in Thresholds :
         main = [pc |-> "loop",
                 max_attempts |-> max_attempts,
                 github_enabled |-> enabled,
                 good_confidence_threshold |-> threshold,
                 attempt |-> 0,
                 target_failure |-> NoFailure,
                 confidence |-> 0,
                 repair_history |-> <<>>,
                 events |-> <<>>]
    /\ MainOnly

MainFrame == UNCHANGED <<parseVars, classVars, applyVars, input, output>>

\* a loop head that would go round once more than max_attempts
StartAttemptOnceMore ==
    /\ main.pc = "loop"
    /\ main.attempt <= main.max_attempts
    /\ main.attempt <= MaxAttempts
    /\ main' = [main EXCEPT !.attempt = @ + 1, !.pc = "run_tests"]
    /\ MainFrame

\* line 93: the next attempt
StartAttempt ==
    /\ main.pc = "loop"
    /\ main.attempt < main.max_attempts
    /\ main' = [main EXCEPT !.attempt = @ + 1, !.pc = "run_tests"]
    /\ MainFrame

\* lines 278-279: the loop ran out
MaxAttemptsReached ==
    /\ main.pc = "loop"
    /\ main.attempt >= main.max_attempts
    /\ main' = EndLoop(main, "max_attempts")
    /\ MainFrame

\* lines 96-109: dm.run_tests returns an exit code or raises
RunTests ==
    /\ main.pc = "run_tests"
    /\ \/ main' = Crash(main)
       \/ \E exit_code \in {0, 1} :
            main' = [Emit(main, "run_tests", exit_code) EXCEPT !.pc = "analyze"]
    /\ MainFrame

\* lines 111-122
Analyze ==
    /\ main.pc = "analyze"
    /\ \E failures \in FailureLists :
         LET m == Emit(main, "analyze", failures)
         IN  IF scripting_failures(failures) = <<>>
             THEN main' = EndLoop(m, "no_issues")
             ELSE main' = [m EXCEPT !.target_failure = scripting_failures(failures)[1],
                                    !.pc = "ask"]
    /\ MainFrame

\* lines 124-215: the context is read, the fix is requested and its
\* confidence compared with the threshold
AskFix ==
    /\ main.pc = "ask"
    /\ \/ main' = Crash(main)
       \/ \E confidence \in 0..MaxConfidence :
            LET m == [Emit(main, "fix_request", confidence) EXCEPT !.confidence = confidence]
            IN  IF main.good_confidence_threshold = Missing
                THEN main' = Crash(m)
                ELSE IF confidence < main.good_confidence_threshold.value
                THEN main' = EndLoop(m, "low_confidence")
                ELSE main' = [m EXCEPT
                                !.repair_history =
                                    Append(@, [attempt |-> main.attempt, status |-> "pending"]),
                                !.pc = IF main.github_enabled THEN "create_branch"
                                       ELSE "apply_local"]
    /\ MainFrame

\* lines 217-230: a failed create_branch leaves the attempt without a patch
CreateBranch ==
    /\ main.pc = "create_branch"
    /\ \E created \in BOOLEAN :
         main' = [Emit(main, "create_branch", created) EXCEPT
                    !.pc = IF created THEN "apply_pr" ELSE "loop"]
    /\ MainFrame

\* the patch_applier.apply_patch(fix.diff) call of lines 231 and 270
ApplyEvent(m, success) ==
    Emit(m, "apply", [success |-> success,
                      target_failure |-> m.target_failure,
                      confidence |-> m.confidence])

\* lines 231-234 and 239
ApplyPatchOnBranch ==
    /\ main.pc = "apply_pr"
    /\ \E success \in BOOLEAN :
         main' = IF success
                 THEN [ApplyEvent(main, TRUE) EXCEPT !.pc = "verify"]
                 ELSE [SetStatus(ApplyEvent(main, FALSE), "patch_failed")
                         EXCEPT !.pc = "revert_pr"]
    /\ MainFrame

\* lines 235-237 and 246-248: revert, back to the base branch, continue
RevertOnBranch ==
    /\ main.pc = "revert_pr"
    /\ main' = [Emit(Emit(main, "revert", "reset"), "checkout", "base_branch")
                  EXCEPT !.pc = "loop"]
    /\ MainFrame

\* a verification whose exit code would not keep the fix from the pull request
VerifyAnyExitCode ==
    /\ main.pc = "verify"
    /\ \/ main' = Crash(main)
       \/ \E exit_code \in {0, 1} :
            main' = [SetStatus(Emit(main, "verify", exit_code), "success_pr_created")
                       EXCEPT !.pc = "commit"]
    /\ MainFrame

\* lines 240-251
Verify ==
    /\ main.pc = "verify"
    /\ \/ main' = Crash(main)
       \/ \E exit_code \in {0, 1} :
            LET m == Emit(main, "verify", exit_code)
            IN  main' = IF exit_code # 0
                        THEN [SetStatus(m, "verification_failed") EXCEPT !.pc = "revert_pr"]
                        ELSE [SetStatus(m, "success_pr_created") EXCEPT !.pc = "commit"]
    /\ MainFrame

\* lines 253-255: git add and git commit with check=True
CommitFix ==
    /\ main.pc = "commit"
    /\ \E committed \in BOOLEAN :
         main' = IF committed THEN [Emit(main, "commit", TRUE) EXCEPT !.pc = "push"]
                 ELSE Crash(main)
    /\ MainFrame

\* lines 257-268: the branch is pushed and, if that worked, the pull request
\* opened; only a pull request that was created ends the loop
PushAndOpenPR ==
    /\ main.pc = "push"
    /\ \E pushed \in BOOLEAN, pr_url \in BOOLEAN :
         LET m == Emit(main, "push_branch", pushed)
         IN  main' = IF ~pushed THEN [m EXCEPT !.pc = "loop"]
                     ELSE IF pr_url
                     THEN EndLoop(Emit(m, "pull_request", TRUE), "pr_created")
                     ELSE [Emit(m, "pull_request", FALSE) EXCEPT !.pc = "loop"]
    /\ MainFrame

\* a local fix that would end the loop on a failed patch without reverting
ApplyPatchLocalNoRevert ==
    /\ main.pc = "apply_local"
    /\ \E success \in BOOLEAN :
         main' = IF success
                 THEN [SetStatus(ApplyEvent(main, TRUE), "success_local_fix")
                         EXCEPT !.pc = "loop"]
                 ELSE EndLoop(SetStatus(ApplyEvent(main, FALSE), "patch_failed"),
                              "patch_failed")
    /\ MainFrame

\* lines 270-273 and 276
ApplyPatchLocal ==
    /\ main.pc = "apply_local"
    /\ \E success \in BOOLEAN :
         main' = IF success
                 THEN [SetStatus(ApplyEvent(main, TRUE), "success_local_fix")
                         EXCEPT !.pc = "loop"]
                 ELSE [SetStatus(ApplyEvent(main, FALSE), "patch_failed")
                         EXCEPT !.pc = "revert_local"]
    /\ MainFrame

\* lines 274-275
RevertLocal ==
    /\ main.pc = "revert_local"
    /\ main' = EndLoop(Emit(main, "revert", "reset"), "patch_failed")
    /\ MainFrame

NextMain ==
    \/ StartAttempt
    \/ MaxAttemptsReached
    \/ RunTests
    \/ Analyze
    \/ AskFix
    \/ CreateBranch
    \/ ApplyPatchOnBranch
    \/ RevertOnBranch
    \/ Verify
    \/ CommitFix
    \/ PushAndOpenPR
    \/ ApplyPatchLocal
    \/ RevertLocal

SpecMain == InitMain /\ [][NextMain]_vars

----------------------------------------------------------------------------
(* main(), lines 124-200: the source text that goes to get_fix_suggestion. *)
(* The sources hold no import line, so lines 170-193 add nothing.          *)

SrcBuildUser == <<"build", "/", "UserTest", ".java">>
SrcTestUser == <<"src", "/", "test", "/", "java", "/", "UserTest", ".java">>
SrcTestOrder == <<"src", "/", "test", "/", "java", "/", "OrderTest", ".java">>

\* the source files of the repository in the order os.walk meets them
SourceOrder == <<SrcBuildUser, SrcTestUser, SrcTestOrder>>

SourcePaths == {SourceOrder[i] : i \in DOMAIN SourceOrder}

\* lines 127-129: the name searched
search_name_of(file_path) ==
    IF Has(basename(file_path), ".java") THEN basename(file_path)
    ELSE basename(file_path) \o <<".java">>

common_test_dirs ==
    << <<"src", "/", "test", "/", "java">>, <<"src", "/", "main", "/", "java">>,
       <<"test">>, <<"tests">> >>

\* line 155
DeepSearchPruned == {<<".git">>, <<"node_modules">>, <<"build">>, <<"target">>, <<".gradle">>}

\* the first file named search_name below the directory dir, from the i-th
\* file of the walk on
RECURSIVE WalkBelow(_, _, _, _)
WalkBelow(fs, dir, search_name, i) ==
    IF i > Len(SourceOrder) THEN NotFound
    ELSE IF /\ fs[SourceOrder[i]].exists
            /\ StartsWith(SourceOrder[i], dir \o <<"/">>)
            /\ basename(SourceOrder[i]) = search_name
         THEN [found |-> TRUE, path |-> SourceOrder[i]]
         ELSE WalkBelow(fs, dir, search_name, i + 1)

\* lines 140-149: the test directories from the k-th on
RECURSIVE SearchTestDirs(_, _, _)
SearchTestDirs(fs, search_name, k) ==
    IF k > Len(common_test_dirs) THEN NotFound
    ELSE IF WalkBelow(fs, common_test_dirs[k], search_name, 1).found
         THEN WalkBelow(fs, common_test_dirs[k], search_name, 1)
         ELSE SearchTestDirs(fs, search_name, k + 1)

\* lines 152-158: the walk of the whole repository
RECURSIVE DeepSearch(_, _, _)
DeepSearch(fs, search_name, i) ==
    IF i > Len(SourceOrder) THEN NotFound
    ELSE IF /\ fs[SourceOrder[i]].exists
            /\ basename(SourceOrder[i]) = search_name
            /\ DirsOf(SourceOrder[i]) \cap DeepSearchPruned = {}
         THEN [found |-> TRUE, path |-> SourceOrder[i]]
         ELSE DeepSearch(fs, search_name, i + 1)

\* lines 131-158 for a path relative to the repository
found_path_of(fs, file_path) ==
    IF file_path \in SourcePaths /\ fs[file_path].exists
    THEN [found |-> TRUE, path |-> file_path]
    ELSE IF SearchTestDirs(fs, search_name_of(file_path), 1).found
    THEN SearchTestDirs(fs, search_name_of(file_path), 1)
    ELSE DeepSearch(fs, search_name_of(file_path), 1)

\* f.read()
ReadText(file) == Concat(file.lines)

\* lines 125-168: '' unless the record has a file_path and the file is found
file_content_of(fs, target_failure) ==
    IF target_failure.file_path = <<>> THEN <<>>
    ELSE IF found_path_of(fs, target_failure.file_path).found
         THEN ReadText(fs[found_path_of(fs, target_failure.file_path).path])
         ELSE <<>>

\* the records main can target: the scripting failures analyze returns
AnalyzedTargets ==
    UNION {{scripting_failures(analyze(d))[k] : k \in DOMAIN scripting_failures(analyze(d))} :
              d \in Directories}

\* the same records as another producer could fill them in, with a path
TargetsWithPath ==
    {[t EXCEPT !.file_path = fp] :
        t \in AnalyzedTargets, fp \in {SrcTestUser, <<"UserTest", ".java">>, <<"OrderTest">>}}

SourceTrees ==
    [SourcePaths -> {Absent, File(<<LineX, LineY>>)}]

InitContext ==
    /\ input \in [fs : SourceTrees, target_failure : AnalyzedTargets \cup TargetsWithPath]
    /\ output = NotRun
    /\ FunctionOnly

\* line 200: the call, with the file_content of lines 125-168
GetFixSuggestion ==
    /\ ~output.ran
    /\ output' = [ran |-> TRUE, op |-> "get_fix_suggestion",
                  failure_context |-> input.target_failure,
                  file_content |-> file_content_of(input.fs, input.target_failure)]
    /\ FunctionFrame

NextContext == GetFixSuggestion

SpecContext == InitContext /\ [][NextContext]_vars

----------------------------------------------------------------------------
(* Claims about the classifier (checked under SpecClassify) *)

\* ind occurs in txt at some position
Occurs(txt, ind) ==
    \E i \in 1..(Len(txt) - Len(ind) + 1) : SubSeq(txt, i, i + Len(ind) - 1) = ind

Blob == failure[1] \o <<" ">> \o failure[2] \o <<" ">> \o failure[3]

SystemOccurs ==
    \E k \in DOMAIN system_indicators : Occurs(Blob, system_indicators[k])

ScriptingOccurs ==
    \E k \in DOMAIN scripting_indicators : Occurs(Blob, scripting_indicators[k])

\* C5: whenever the text "type message trace" of a classified failure holds
\* a system indicator, the result is False (system issue), also when a
\* scripting indicator occurs in one of the three fields.
C5_SystemWins ==
    (verdict.ran /\ SystemOccurs) => verdict.is_scripting = FALSE

C5_Witness ==
    /\ verdict.ran
    /\ SystemOccurs
    /\ \E f \in 1..3 : Occurs(failure[f], <<"Assertion", "Error">>)
    /\ verdict.is_scripting = FALSE

\* C6: the classifier answers with one boolean for every triple, and the
\* answer is True exactly when no system indicator and some scripting
\* indicator occurs in the text; a text with no indicator is not a scripting
\* issue.
C6_TotalExact ==
    verdict.ran =>
        /\ verdict.is_scripting \in BOOLEAN
        /\ verdict.is_scripting = (~SystemOccurs /\ ScriptingOccurs)
        /\ (~SystemOccurs /\ ~ScriptingOccurs) => verdict.is_scripting = FALSE

C6_Witness ==
    /\ verdict.ran
    /\ ~SystemOccurs
    /\ ScriptingOccurs
    /\ verdict.is_scripting = TRUE

----------------------------------------------------------------------------
(* Claims about the diff parser (checked under SpecParse) *)

Dash3 == <<"-", "-", "-">>
Plus3 == <<"+", "+", "+">>

\* line i of the text begins with '-' but not with '---'
MinusAt(i) ==
    /\ Len(text[i]) >= 1
    /\ text[i][1] = "-"
    /\ ~(Len(text[i]) >= 3 /\ SubSeq(text[i], 1, 3) = Dash3)

\* line i of the text begins with '+' but not with '+++'
PlusAt(i) ==
    /\ Len(text[i]) >= 1
    /\ text[i][1] = "+"
    /\ ~(Len(text[i]) >= 3 /\ SubSeq(text[i], 1, 3) = Plus3)

\* the places where a '-' line is immediately followed by a '+' line
PairAt == {i \in 1..(Len(text) - 1) : MinusAt(i) /\ PlusAt(i + 1)}

\* the pairs of the text from line i on, in the order of the text
RECURSIVE PairsFrom(_)
PairsFrom(i) ==
    IF i > Len(text) THEN <<>>
    ELSE IF i \in PairAt
         THEN <<[old |-> Tail(text[i]), new |-> Tail(text[i + 1])]>> \o PairsFrom(i + 1)
         ELSE PairsFrom(i + 1)

\* C7: for a text with a path header, the changes of the parsed document are
\* exactly the pairs of a '-' line (not '---') immediately followed by a '+'
\* line (not '+++'), prefixes removed, in text order; no line is in two pairs.
C7_ExactPairs ==
    (parsed.ran /\ parsed.doc.found) =>
        /\ parsed.doc.changes = PairsFrom(1)
        /\ \A i \in PairAt : i + 1 \notin PairAt

C7_Witness ==
    /\ parsed.ran
    /\ parsed.doc.found
    /\ Len(parsed.doc.changes) = 2
    /\ parsed.doc.changes[1] # parsed.doc.changes[2]

\* the '+++ ' header lines and the '--- a/' header lines of the text
PlusHeaders == {i \in 1..Len(text) : Len(text[i]) >= 4 /\ SubSeq(text[i], 1, 4) = HdrPlus}

MinusHeaders ==
    {i \in 1..Len(text) : Len(text[i]) >= 6 /\ SubSeq(text[i], 1, 6) = HdrMinusA}

FirstOf(S) == CHOOSE i \in S : \A j \in S : i <= j

\* the path a '+++ ' header line names: without 'b/' when it has that prefix
PlusPath(line) ==
    IF Len(line) >= 6 /\ SubSeq(line, 5, 6) = <<"b", "/">>
    THEN Strip(SubSeq(line, 7, Len(line)))
    ELSE Strip(SubSeq(line, 5, Len(line)))

\* C8: the path is the one of the first '+++ ' header (b/ removed); a
\* '--- a/' header gives the path only in a text without '+++ ' header; a
\* text with neither yields no document.  (A header naming the empty path
\* yields no document either.)
C8_PathSource ==
    parsed.ran =>
        IF PlusHeaders # {}
        THEN LET p == PlusPath(text[FirstOf(PlusHeaders)])
             IN  IF p = <<>> THEN ~parsed.doc.found
                 ELSE parsed.doc.found /\ parsed.doc.path = p
        ELSE IF MinusHeaders # {}
        THEN parsed.doc.found =>
                \E i \in MinusHeaders :
                    parsed.doc.path = Strip(SubSeq(text[i], 7, Len(text[i])))
        ELSE ~parsed.doc.found

C8_Witness ==
    /\ parsed.ran
    /\ Len(text) >= 2
    /\ text[1] = LOldA
    /\ text[2] = LNewBareB
    /\ parsed.doc.found
    /\ parsed.doc.path = <<"B">>

----------------------------------------------------------------------------
(* Claims about PatchApplier (checked under Spec) *)

\* the apply_patch calls that have returned
ApplyEntries == {i \in DOMAIN log : log[i].op = "apply"}

RanStage(e, stage) == \E k \in DOMAIN e.stages : e.stages[k] = stage

\* the lines of a file that match an edit's old text
Matching(lines, old) == {i \in DOMAIN lines : lines_match(lines[i], old)}

Lowest(S) == CHOOSE i \in S : \A j \in S : i <= j

\* one edit: it replaces the lowest matching line, if there is one
AfterEdit(before, change) ==
    LET M == Matching(before, change.old)
    IN  IF M = {} THEN before
        ELSE [before EXCEPT ![Lowest(M)] = change.new \o <<NL>>]

\* the file after the first k edits, each made on the file as the edits
\* before it left it
RECURSIVE AfterEdits(_, _, _)
AfterEdits(lines, changes, k) ==
    IF k = 0 THEN lines
    ELSE CHOOSE after \in {AfterEdit(before, changes[k]) :
                             before \in {AfterEdits(lines, changes, k - 1)}} : TRUE

\* the edits that found a line to replace
Replacing(lines, changes) ==
    {k \in DOMAIN changes :
        Matching(AfterEdits(lines, changes, k - 1), changes[k].old) # {}}

\* The entries of the log never change once written: a property of every
\* returned call is checked on the latest entry, when it is written.
Returned(i) == i = Len(log) /\ log[i].op = "apply" /\ pc = "idle"

\* C1: apply_patch runs the snapshot, then Strategy A, then Strategy B if and
\* only if Strategy A reported failure, and Strategy B never runs on a tree
\* that Strategy A has modified; the call returns True if and only if one of
\* the strategies reported success.
C1_StageOrder ==
    \A i \in ApplyEntries :
        LET e == log[i]
        IN  /\ e.stages \in {<<"snapshot", "git_apply">>,
                             <<"snapshot", "git_apply", "direct">>}
            /\ RanStage(e, "direct") <=> ~e.a_ok
            /\ RanStage(e, "direct") => e.after_a = e.pre
            /\ e.ret <=> (e.a_ok \/ (RanStage(e, "direct") /\ e.b.ret))

\* C2: Strategy B takes the edits in diff order; each replaces the lowest
\* line matching its old text in the file as the earlier edits left it; an
\* edit without a matching line is skipped; the call returns True and writes
\* the file if and only if some edit replaced a line, and otherwise returns
\* False and leaves the tree as it found it.
C2_DirectFirstMatch ==
    \A i \in DOMAIN log :
        (Returned(i) /\ RanStage(log[i], "direct")) =>
            \A changes \in {parse_diff(log[i].patch).changes} :
                LET e == log[i]
                IN  IF e.b.target = <<>>
                    THEN ~e.b.ret /\ ~e.b.wrote /\ e.tree = e.after_a
                    ELSE \A lines \in {e.after_a[e.b.target].lines} :
                            /\ e.b.ret <=> Replacing(lines, changes) # {}
                            /\ e.b.wrote <=> e.b.ret
                            /\ e.tree = IF e.b.ret
                                        THEN [e.after_a EXCEPT ![e.b.target] =
                                                File(AfterEdits(lines, changes, Len(changes)))]
                                        ELSE e.after_a

\* Strategy B returned True on a diff of two edits of which the second found
\* no line, on a file it changed
C2_Witness ==
    \E i \in ApplyEntries :
        /\ RanStage(log[i], "direct")
        /\ log[i].b.ret
        /\ Len(parse_diff(log[i].patch).changes) = 2
        /\ Replacing(log[i].after_a[log[i].b.target].lines,
                     parse_diff(log[i].patch).changes) = {1}
        /\ log[i].tree # log[i].after_a

\* C3: a revert_changes that follows a failed apply_patch leaves every file
\* with the content it had when that call took its snapshot.
C3_RevertRestores ==
    \A i \in DOMAIN log :
        (i > 1 /\ log[i].op = "revert" /\ log[i - 1].op = "apply" /\ ~log[i - 1].ret)
            => log[i].tree = log[i - 1].pre

\* C4: an apply_patch of the same patch right after one that applied it
\* (Strategy A rejecting it and leaving the tree alone) either returns False
\* or leaves every file unchanged, and every file then has its content of
\* before the first call or of after the first call.
C4_SecondApply ==
    \A i \in ApplyEntries :
        (/\ i > 1
         /\ log[i - 1].op = "apply"
         /\ log[i - 1].ret
         /\ log[i].after_a = log[i].pre)
            => \A q \in RepoPaths :
                  /\ ~log[i].ret \/ log[i].tree[q] = log[i - 1].tree[q]
                  /\ log[i].tree[q] \in {log[i - 1].pre[q], log[i - 1].tree[q]}

\* the calls whose patch text gives _parse_diff no path
Pathless == {i \in DOMAIN log : Returned(i) /\ ~parse_diff(log[i].patch).found}

\* C9 (as stated): on a patch text in which the parser finds no path,
\* apply_patch returns False and Strategy B is not attempted.
C9_PathlessSkipsDirect ==
    \A i \in Pathless : ~log[i].ret /\ ~RanStage(log[i], "direct")

\* C9 (amended): on a patch text in which the parser finds no path,
\* apply_patch returns True exactly when git apply accepted the text;
\* otherwise Strategy B is called and returns False at its parse step: it
\* opens and writes no file and leaves the tree as Strategy A left it.
C9_PathlessStopsAtParse ==
    \A i \in Pathless :
        LET e == log[i]
        IN  /\ e.ret <=> e.a_ok
            /\ ~e.a_ok =>
                  /\ RanStage(e, "direct")
                  /\ ~e.b.ret
                  /\ ~e.b.parsed
                  /\ e.b.target = <<>>
                  /\ ~e.b.wrote
                  /\ e.tree = e.after_a

\* a text of one line pair and no header went through Strategy B, with a file
\* in the tree that holds the pair's old line
C9_Witness ==
    \E i \in Pathless :
        /\ RanStage(log[i], "direct")
        /\ log[i].patch = EditXY
        /\ log[i].after_a[PathSrcA].exists
        /\ Matching(log[i].after_a[PathSrcA].lines, <<"x">>) # {}
        /\ ~log[i].ret

\* the file a section's path stands for: the path itself, or the file found
\* by its name
Referenced(fs, path) ==
    IF Exists(fs, path) THEN [found |-> TRUE, path |-> path]
    ELSE find_file_recursive(fs, basename(path))

\* C10: when Strategy B gets a diff of several file sections of which one
\* names a file that cannot be found, every other section's edits are applied
\* to that section's file, and to no other.
C10_OtherFilesProceed ==
    \A i \in ApplyEntries :
        LET e == log[i]
            sections == SectionsFrom(e.patch, 1)
            missing == {k \in DOMAIN sections :
                           ~Referenced(e.after_a, sections[k].path).found}
        IN  (RanStage(e, "direct") /\ Len(sections) >= 2 /\ missing # {})
               => \A q \in RepoPaths :
                     LET own == {k \in DOMAIN sections \ missing :
                                    Referenced(e.after_a, sections[k].path).path = q}
                     IN  IF own = {} THEN e.tree[q] = e.after_a[q]
                         ELSE \E k \in own :
                                 e.tree[q].lines =
                                    AfterEdits(e.after_a[q].lines, sections[k].changes,
                                               Len(sections[k].changes))

----------------------------------------------------------------------------
(* Claims about main's repair loop (checked under SpecMain) *)

Ev == main.events

IsOp(i, op) == Ev[i].op = op

\* An event never changes once written, and a step of main writes at most
\* two: a property of an event and the events before it is checked on the
\* last two.
Latest == {Len(Ev) - 1, Len(Ev)} \cap DOMAIN Ev

\* a test run, of the loop's head or of the verification, that failed
FailedTestRun(i) == (IsOp(i, "run_tests") \/ IsOp(i, "verify")) /\ Ev[i].val # 0

RevertBetween(i, k) == \E r \in (i + 1)..(k - 1) : IsOp(r, "revert")

\* at event i a patch applied earlier is still in the working tree
PatchInTree(i) ==
    \E j \in 1..(i - 1) :
        IsOp(j, "apply") /\ Ev[j].val.success /\ ~RevertBetween(j, i)

\* C11: after a test run that fails with an applied patch in the tree,
\* revert_changes is called before another fix is requested or the run ends,
\* with GitHub enabled and in the local-fix mode alike.
C11_RevertAfterFailedRerun ==
    \A i \in DOMAIN Ev, k \in DOMAIN Ev :
        (/\ i < k
         /\ FailedTestRun(i)
         /\ PatchInTree(i)
         /\ (IsOp(k, "fix_request") \/ IsOp(k, "end")))
            => RevertBetween(i, k)

FailedApply(i) == IsOp(i, "apply") /\ ~Ev[i].val.success

\* C12: when apply_patch returns False the attempt's status is patch_failed,
\* the next thing main does is revert_changes, and main goes on (to the next
\* attempt or to the end of the loop) instead of dying.
C12_FailedPatchReverted ==
    \A i \in DOMAIN Ev :
        FailedApply(i) =>
            /\ \E h \in DOMAIN main.repair_history :
                  /\ main.repair_history[h].attempt = Ev[i].attempt
                  /\ main.repair_history[h].status = "patch_failed"
            /\ IF i = Len(Ev) THEN main.pc \in {"revert_pr", "revert_local"}
               ELSE /\ IsOp(i + 1, "revert")
                    /\ \A k \in (i + 1)..Len(Ev) : ~(IsOp(k, "crash") /\ Ev[k].attempt = Ev[i].attempt)

\* with GitHub enabled a failed patch was reverted and the next attempt ran
\* its tests
C12_Witness ==
    \E i \in DOMAIN Ev, k \in DOMAIN Ev :
        /\ FailedApply(i)
        /\ main.github_enabled
        /\ i + 1 < k
        /\ IsOp(i + 1, "revert")
        /\ IsOp(k, "run_tests")

NoScripting(failures) == \A k \in DOMAIN failures : ~failures[k].is_scripting_issue

LowConfidence(i) ==
    /\ IsOp(i, "fix_request")
    /\ main.good_confidence_threshold.present
    /\ Ev[i].val < main.good_confidence_threshold.value

\* C13: apply_patch is called only for a failure with is_scripting_issue true
\* taken from the attempt's analysis and only with a confidence of at least
\* the threshold; an analysis without scripting failure, or a lower
\* confidence, ends the loop at once with no apply_patch call in the attempt.
C13_OnlyConfidentScripting ==
    /\ \A i \in Latest :
          IsOp(i, "apply") =>
              /\ Ev[i].val.target_failure.is_scripting_issue
              /\ main.good_confidence_threshold.present
              /\ Ev[i].val.confidence >= main.good_confidence_threshold.value
              /\ \E a \in 1..(i - 1) :
                    /\ IsOp(a, "analyze")
                    /\ Ev[a].attempt = Ev[i].attempt
                    /\ \E k \in DOMAIN Ev[a].val : Ev[a].val[k] = Ev[i].val.target_failure
    /\ \A i \in DOMAIN Ev :
          ((IsOp(i, "analyze") /\ NoScripting(Ev[i].val)) \/ LowConfidence(i)) =>
              /\ Len(Ev) = i + 1
              /\ IsOp(i + 1, "end")
              /\ main.pc = "done"
              /\ \A j \in DOMAIN Ev : IsOp(j, "apply") => Ev[j].attempt # Ev[i].attempt

\* a patch was applied for the second failure of the list, the first not
\* being a scripting issue, at a confidence equal to the threshold
C13_Witness ==
    \E a \in DOMAIN Ev, i \in DOMAIN Ev :
        /\ IsOp(a, "analyze")
        /\ Len(Ev[a].val) = 2
        /\ IsOp(i, "apply")
        /\ Ev[i].attempt = Ev[a].attempt
        /\ Ev[i].val.target_failure = Ev[a].val[2]
        /\ Ev[i].val.confidence = main.good_confidence_threshold.value

MainOver == main.pc \in {"done", "crashed"}

\* C14 (as stated): at most max_attempts attempts, and a run that leaves the
\* loop has ended in one of three states: no scripting issues, low
\* confidence, max attempts.
C14_ThreeTerminalStates ==
    /\ main.attempt <= main.max_attempts
    /\ main.pc = "done" =>
          /\ IsOp(Len(Ev), "end")
          /\ Ev[Len(Ev)].val \in {"no_issues", "low_confidence", "max_attempts"}

\* what ends the loop before it runs out, read from what main did
EarlyStop ==
    \E i \in DOMAIN Ev :
        \/ IsOp(i, "analyze") /\ NoScripting(Ev[i].val)
        \/ LowConfidence(i)
        \/ IsOp(i, "pull_request") /\ Ev[i].val
        \/ FailedApply(i) /\ ~main.github_enabled
        \/ IsOp(i, "crash")

\* C14 (amended): at most max_attempts attempts; a run ends once, by an
\* uncaught exception or in one of five states: no scripting issues, low
\* confidence, pull request created, local patch failed, max attempts; the
\* last exactly when all max_attempts attempts ran without an earlier stop.
C14_TerminalStates ==
    /\ main.attempt <= main.max_attempts
    /\ \A i \in Latest : Ev[i].attempt <= main.max_attempts
    /\ \A i \in DOMAIN Ev :
          (IsOp(i, "end") \/ IsOp(i, "crash")) => (i = Len(Ev) /\ MainOver)
    /\ MainOver =>
          /\ IsOp(Len(Ev), "end") \/ IsOp(Len(Ev), "crash")
          /\ IsOp(Len(Ev), "crash") <=> main.pc = "crashed"
          /\ IsOp(Len(Ev), "end") =>
                /\ Ev[Len(Ev)].val \in {"no_issues", "low_confidence", "pr_created",
                                        "patch_failed", "max_attempts"}
                /\ Ev[Len(Ev)].val = "max_attempts"
                      <=> (main.attempt = main.max_attempts /\ ~EarlyStop)

\* the loop ran out after MaxAttempts attempts, the last of which applied a
\* patch
C14_Witness ==
    /\ main.pc = "done"
    /\ main.attempt = MaxAttempts
    /\ Ev[Len(Ev)].val = "max_attempts"
    /\ \E i \in DOMAIN Ev : IsOp(i, "apply") /\ Ev[i].attempt = MaxAttempts /\ Ev[i].val.success

\* events i and k belong to the same attempt
SameAttempt(i, k) == Ev[i].attempt = Ev[k].attempt

FailedVerify(i) == IsOp(i, "verify") /\ Ev[i].val # 0

Published(i) == IsOp(i, "push_branch") \/ IsOp(i, "pull_request")

\* C21: push_branch and create_pull_request are called only with GitHub
\* enabled and after, in the same attempt, apply_patch returned True and the
\* verification run exited with 0; an attempt whose patch failed to apply or
\* failed verification pushes nothing and opens no pull request.
C21_PublishedOnlyVerified ==
    \A i \in Latest :
        /\ Published(i) =>
              /\ main.github_enabled
              /\ \E v \in 1..(i - 1) :
                    /\ IsOp(v, "verify") /\ Ev[v].val = 0 /\ SameAttempt(v, i)
                    /\ \E a \in 1..(v - 1) :
                          IsOp(a, "apply") /\ Ev[a].val.success /\ SameAttempt(a, i)
              /\ \A k \in 1..(i - 1) :
                    SameAttempt(k, i) => ~(FailedApply(k) \/ FailedVerify(k))
        /\ (FailedApply(i) \/ FailedVerify(i)) =>
              \A k \in 1..(i - 1) : SameAttempt(k, i) => ~Published(k)

\* a first attempt failed verification and published nothing; the second
\* was verified, pushed and its pull request opened
C21_Witness ==
    \E f \in DOMAIN Ev, i \in DOMAIN Ev :
        /\ FailedVerify(f)
        /\ f < i
        /\ IsOp(i, "pull_request")
        /\ Ev[i].val
        /\ IsOp(i - 1, "push_branch")

\* C22: when the run is over, an entry of repair_history has the status
\* success_pr_created only if in its attempt the branch was pushed and
\* create_pull_request returned a URL.
C22_StatusMeansPullRequest ==
    main.pc = "done" =>
        \A h \in DOMAIN main.repair_history :
            main.repair_history[h].status = "success_pr_created" =>
                \E i \in DOMAIN Ev, k \in DOMAIN Ev :
                    /\ IsOp(i, "push_branch") /\ Ev[i].val
                    /\ Ev[i].attempt = main.repair_history[h].attempt
                    /\ IsOp(k, "pull_request") /\ Ev[k].val
                    /\ Ev[k].attempt = main.repair_history[h].attempt

\* C23: an attempt in which create_branch failed still calls apply_patch:
\* once main has gone on to something else, the call has been made.
C23_FallsBackToLocalFix ==
    \A i \in DOMAIN Ev :
        (IsOp(i, "create_branch") /\ ~Ev[i].val /\ i < Len(Ev)) =>
            /\ IsOp(i + 1, "apply")
            /\ SameAttempt(i, i + 1)

----------------------------------------------------------------------------
(* Claims about FailureAnalyzer.analyze (checked under SpecAnalyze) *)

\* the well-formed reports of the directory, by position
GoodReports ==
    IF ~input.exists THEN {}
    ELSE {f \in DOMAIN input.files :
             /\ input.files[f].name[1] = "TEST-"
             /\ input.files[f].name[Len(input.files[f].name)] = ".xml"
             /\ input.files[f].wellformed}

\* the suites of a report's document
ReportSuites(f) ==
    LET root == input.files[f].root
    IN  IF root.tag = "testsuite" THEN <<root>>
        ELSE [k \in 1..Cardinality({j \in DOMAIN root.children :
                                       root.children[j].tag = "testsuite"}) |->
                 root.children[CHOOSE j \in DOMAIN root.children :
                    /\ root.children[j].tag = "testsuite"
                    /\ Cardinality({i \in 1..j : root.children[i].tag = "testsuite"}) = k]]

HasChild(el, tag) == \E j \in DOMAIN el.children : el.children[j].tag = tag

FirstChild(el, tag) ==
    el.children[CHOOSE j \in DOMAIN el.children :
                   /\ el.children[j].tag = tag
                   /\ \A i \in 1..(j - 1) : el.children[i].tag # tag]

\* the testcase elements carrying a failure or an error child: report,
\* suite and position in the suite
FailedCases ==
    {<<f, s, c>> \in GoodReports \X (1..3) \X (1..3) :
        /\ s <= Len(ReportSuites(f))
        /\ c <= Len(ReportSuites(f)[s].children)
        /\ ReportSuites(f)[s].children[c].tag = "testcase"
        /\ \/ HasChild(ReportSuites(f)[s].children[c], "failure")
           \/ HasChild(ReportSuites(f)[s].children[c], "error")}

Before(a, b) ==
    \/ a[1] < b[1]
    \/ a[1] = b[1] /\ a[2] < b[2]
    \/ a[1] = b[1] /\ a[2] = b[2] /\ a[3] < b[3]

\* the place of a failed testcase in the scan
Rank(a) == Cardinality({b \in FailedCases : Before(b, a)}) + 1

\* C15: analyze returns one FailureContext for each testcase with a failure
\* or error child of the well-formed TEST-*.xml reports, in scan order, each
\* with the issue's type, message and trace and with is_scripting_issue the
\* classifier's verdict on them; a directory that does not exist gives the
\* empty list, and a malformed report gives no context and loses none of the
\* other reports'.
C15_OneContextPerFailedCase ==
    output.ran =>
        /\ Len(output.failures) = Cardinality(FailedCases)
        /\ ~input.exists => output.failures = <<>>
        /\ \A a \in FailedCases :
              LET testcase == ReportSuites(a[1])[a[2]].children[a[3]]
                  issue == IF HasChild(testcase, "failure") THEN FirstChild(testcase, "failure")
                           ELSE FirstChild(testcase, "error")
                  ctx == output.failures[Rank(a)]
                  type == IF issue.attrib.type = <<>> THEN <<"Unknown">> ELSE issue.attrib.type
              IN  /\ ctx.failure_type = type
                  /\ ctx.message = issue.attrib.message
                  /\ ctx.stack_trace = issue.text
                  /\ ctx.is_scripting_issue =
                        classify_issue(type, issue.attrib.message, issue.text)
                  /\ testcase.attrib.name # <<>> => ctx.test_name = testcase.attrib.name

\* a malformed report came before a report with a failed testcase, whose
\* context was returned
C15_Witness ==
    /\ output.ran
    /\ Len(input.files) = 2
    /\ input.files[1].name = <<"TEST-", "User", ".xml">>
    /\ ~input.files[1].wellformed
    /\ Len(output.failures) = 2
    /\ output.failures[1].is_scripting_issue

----------------------------------------------------------------------------
(* Claims about the path search (checked under SpecFind and SpecResolve) *)

PrunedNames == {".git", "build", ".gradle", "target"}

\* the files of a repository with a given name
Named(fs, name) == {q \in RepoPaths : fs[q].exists /\ <<q[Len(q)]>> = name}

\* the path goes through none of the directories the walk leaves out
Outside(q) == \A j \in 1..(Len(q) - 1) : q[j] \notin PrunedNames

Position(q) == CHOOSE i \in DOMAIN WalkOrder : WalkOrder[i] = q

\* the first file of that name the walk meets outside those directories
FirstOutside(fs, name, q) ==
    /\ q \in Named(fs, name)
    /\ Outside(q)
    /\ \A r \in Named(fs, name) : Outside(r) => Position(q) <= Position(r)

\* C17 (as stated): the result is the first file of that name in walk order
\* outside .git, build, .gradle and target, and it is None exactly when the
\* repository holds no file of that name.
C17_NoneOnlyWhenAbsent ==
    output.ran =>
        /\ output.real_path.found =>
              FirstOutside(input.fs, input.filename, output.real_path.path)
        /\ ~output.real_path.found <=> Named(input.fs, input.filename) = {}

\* C17 (amended): the result is the first file of that name in walk order
\* outside .git, build, .gradle and target, and it is None exactly when no
\* file of that name exists outside those directories.
C17_FirstOutsidePruned ==
    output.ran =>
        /\ output.real_path.found =>
              FirstOutside(input.fs, input.filename, output.real_path.path)
        /\ ~output.real_path.found <=>
              {q \in Named(input.fs, input.filename) : Outside(q)} = {}

\* the name is that of a file under build, of src/A and of src/main/A: the
\* search returned src/A
C17_Witness ==
    /\ output.ran
    /\ \A q \in {PathBuildA, PathSrcA, PathSrcMainA} : input.fs[q].exists
    /\ input.filename = <<"A">>
    /\ output.real_path.found
    /\ output.real_path.path = PathSrcA

IsDiffHeader(line) ==
    StartsWith(line, <<"-", "-", "-", " ">>) \/ StartsWith(line, <<"+", "+", "+", " ">>)

\* where a header's path begins: after '--- a/' or '+++ b/', or after '--- '
\* or '+++ '
PathStart(line) ==
    IF Len(line) >= 6 /\ SubSeq(line, 5, 6) \in {<<"a", "/">>, <<"b", "/">>} THEN 7 ELSE 5

HeaderPath(line) == Strip(SubSeq(line, PathStart(line), Len(line)))

\* what the claim makes of a line
Resolved(fs, line) ==
    IF /\ IsDiffHeader(line)
       /\ HeaderPath(line) # <<>>
       /\ ~(HeaderPath(line) \in RepoPaths /\ fs[HeaderPath(line)].exists)
       /\ \E q \in RepoPaths :
             FirstOutside(fs, <<HeaderPath(line)[Len(HeaderPath(line))]>>, q)
    THEN SubSeq(line, 1, PathStart(line) - 1)
            \o (CHOOSE q \in RepoPaths :
                   FirstOutside(fs, <<HeaderPath(line)[Len(HeaderPath(line))]>>, q))
    ELSE line

\* C16: every '---'/'+++' header, with or without a/ or b/, whose path does
\* not exist is rewritten to the path the by-name search finds; every other
\* line, and the number of lines, stay; a second call changes nothing.
C16_HeadersResolved ==
    output.ran =>
        LET before == SplitOn(input.patch_content, NL)
            after == SplitOn(output.once, NL)
        IN  /\ Len(after) = Len(before)
            /\ \A i \in DOMAIN before : after[i] = Resolved(input.fs, before[i])
            /\ output.twice = output.once

----------------------------------------------------------------------------
(* Claims about _lines_match (checked under SpecMatch) *)

IsHorizontal(c) == c \in {" ", "\t"}

IsntHorizontal(c) == ~IsHorizontal(c)

\* the two lines are the same line but for blanks and tabs
DifferBySpaces(a, b) == SelectSeq(a, IsntHorizontal) = SelectSeq(b, IsntHorizontal)

Without(s, i) == SubSeq(s, 1, i - 1) \o SubSeq(s, i + 1, Len(s))

\* s[i] is a leading zero of a number of several digits
IsLeadingZero(s, i) ==
    /\ s[i] = "0"
    /\ i = 1 \/ s[i - 1] \notin Digit
    /\ i < Len(s) /\ s[i + 1] \in Digit

\* s[i] is a number by itself, the number 0
IsLoneZero(s, i) ==
    /\ s[i] = "0"
    /\ i = 1 \/ s[i - 1] \notin Digit
    /\ i = Len(s) \/ s[i + 1] \notin Digit

\* b is a but for leading zeros
RECURSIVE LessLeadingZeros(_, _)
LessLeadingZeros(a, b) ==
    \/ a = b
    \/ /\ Len(a) > Len(b)
       /\ \E i \in DOMAIN a : IsLeadingZero(a, i) /\ LessLeadingZeros(Without(a, i), b)

\* b is a but for one number 0
LessLoneZero(a, b) == \E i \in DOMAIN a : IsLoneZero(a, i) /\ b = Without(a, i)

\* C18: a line matches itself; lines that differ by blanks and tabs
\* match; lines that differ by the leading zeros of numbers match; a line
\* does not match the line that lacks one of its numbers 0.
C18_FuzzyMatch ==
    output.ran =>
        /\ input.line1 = input.line2 => output.match
        /\ DifferBySpaces(input.line1, input.line2) => output.match
        /\ (\/ LessLeadingZeros(input.line1, input.line2)
            \/ LessLeadingZeros(input.line2, input.line1)) => output.match
        /\ (\/ LessLoneZero(input.line1, input.line2)
            \/ LessLoneZero(input.line2, input.line1)) => ~output.match

\* 'x01' and 'x1' were compared and match
C18_Witness ==
    /\ output.ran
    /\ input.line1 = <<"x", "0", "1">>
    /\ input.line2 = <<"x", "1">>
    /\ output.match

----------------------------------------------------------------------------
(* Claims about the line endings Strategy B leaves (checked under SpecDirect) *)

Terminator(l) ==
    IF Len(l) >= 2 /\ SubSeq(l, Len(l) - 1, Len(l)) = <<"\r", NL>> THEN "CRLF"
    ELSE IF l # <<>> /\ l[Len(l)] = NL THEN "LF"
    ELSE "none"

\* the line is the old line of none of the patch's changes
NeverReplaced(l) ==
    \A k \in DOMAIN ExtractChanges(input.lines, 1) :
        ~lines_match(ReadLine(l), ExtractChanges(input.lines, 1)[k].old)

\* C19: after a successful Strategy B the file has its lines as they were
\* where none was replaced, and every line, replaced or not, ends as it
\* ended before: LF, CRLF or nothing.
C19_LineEndingsKept ==
    (output.ran /\ output.result.ret) =>
        LET before == input.fs[PathSrcA].lines
            after == output.result.fs[PathSrcA].lines
        IN  /\ Len(after) = Len(before)
            /\ \A i \in DOMAIN before :
                  /\ Terminator(after[i]) = Terminator(before[i])
                  /\ NeverReplaced(before[i]) => after[i] = before[i]

\* the lines the edits select, each on the file as the edits before it
\* left it: the lowest matching line of every edit that finds one
Selected(lines, changes) ==
    {Lowest(Matching(AfterEdits(lines, changes, k - 1), changes[k].old)) :
        k \in Replacing(lines, changes)}

\* C25: Strategy B leaves the target file with the number of lines it had;
\* the lines no edit selected are as they were, and the edits select at most
\* one line each; every file but the resolved target is as it was; and when
\* the call returns False every file is as it was.
C25_DirectFrame ==
    output.ran =>
        LET r == output.result
            changes == ExtractChanges(input.lines, 1)
        IN  /\ \A q \in RepoPaths : q # r.target => r.fs[q] = input.fs[q]
            /\ ~r.ret => r.fs = input.fs
            /\ r.target # <<>> =>
                  \A before \in {ReadLines(input.fs[r.target])} :
                      /\ Len(r.fs[r.target].lines) = Len(input.fs[r.target].lines)
                      /\ Cardinality(Selected(before, changes)) <= Len(changes)
                      /\ \A i \in DOMAIN before :
                            i \notin Selected(before, changes) =>
                                r.fs[r.target].lines[i] = input.fs[r.target].lines[i]

----------------------------------------------------------------------------
(* Claims about SecurityUtils (checked under SpecRedact) *)

\* the values the claim is about: those of more than four characters
LongSecrets(env) == {env[key] : key \in DOMAIN env} \ {v \in SecretValues : Len(v) <= 4}

\* C20: the text redact_text returns and the text safe_print prints hold no
\* occurrence of the value of one of the four variables that is longer than
\* four characters.
C20_NoSecretInOutput ==
    output.ran => \A v \in LongSecrets(input.env) : ~Contains(output.text, v)

----------------------------------------------------------------------------
(* Claims about the context of a fix request (checked under SpecContext) *)

\* the source files of the test class of a failure, outside build output
SourcesOf(fs, target_failure) ==
    {q \in SourcePaths :
        /\ fs[q].exists
        /\ q[Len(q) - 1] = target_failure.test_class[1]
        /\ q[1] # "build"}

\* C24: for a failure record that analyze produced, when the source file of
\* its test exists in the repository, get_fix_suggestion gets that file's
\* text, not the empty string.
C24_SourceTextGiven ==
    (/\ output.ran
     /\ input.target_failure \in AnalyzedTargets
     /\ SourcesOf(input.fs, input.target_failure) # {}) =>
        /\ output.file_content # <<>>
        /\ \E q \in SourcesOf(input.fs, input.target_failure) :
              output.file_content = Concat(input.fs[q].lines)

=============================================================================
